---- MODULE Spec2Model ----
(***************************************************************************)
(* A model of the two source files of ewah:                                *)
(*   ewah/hooks/airflow.py            EWAHAirflowHook.get_data_in_batches  *)
(*   ewah/ewah_utils/dag_factory_incremental.py                            *)
(*                                    ExtendedETS, the incremental factory *)
(***************************************************************************)
EXTENDS Integers, Sequences, FiniteSets, TLC

\* ---------------------------------------------------------------- bounds
MaxTotal == 5
MaxPage == 3
MaxBatch == 3
MaxMultiple == 2
MaxCalls == 3
MaxRuns == 2

\* ======================================================================
\* Part 1: EWAHAirflowHook.get_data_in_batches (hooks/airflow.py)
\* ======================================================================

VARIABLES
    paginated,      \* the endpoint's responses carry "total_entries"
    total_entries,  \* number of records the server holds
    page_size,      \* argument page_size
    batch_size,     \* argument batch_size
    ssh_conn_id,    \* self.conn.ssh_conn_id is set
    pc,             \* position of the generator
    offset,         \* params["offset"]
    data,           \* the accumulator
    i,              \* request counter
    requests,       \* every request issued: <<limit, offset>>, in order
    yielded,        \* every batch handed to the consumer, in order
    tunnel,         \* "none" | "started" | "stopped"
    stop_calls,     \* number of ssh_hook.stop_tunnel() calls
    late_requests   \* requests issued while the tunnel was stopped

VARIABLES
    f_pc,           \* "idle" | "raised" | "returned"
    f_args,         \* the arguments of the call
    f_error,        \* the exception raised, "" if none
    f_now,          \* None, or the value datetime.now() returned (line 80)
    f_switch_date,  \* None, or the switch date in use from line 85 on
    f_dags,         \* None, or the three DAGs of lines 94-120
    ets             \* None, or the two sensor objects of lines 207-227

VARIABLES
    sensed,     \* what each direct execute call waited for, in order
    runs        \* the task instances: per DAG its runs in order

factoryVars == <<f_pc, f_args, f_error, f_now, f_switch_date, f_dags, ets>>

notHook == <<factoryVars, sensed, runs>>

hookVars == <<paginated, total_entries, page_size, batch_size, ssh_conn_id, pc,
              offset, data, i, requests, yielded, tunnel, stop_calls,
              late_requests>>

notFactory == <<hookVars, sensed, runs>>

\* The single object a non-paginated endpoint answers with.
Singleton == 0

OK == 200
ServerError == 500
StatusCodes == {OK, ServerError}

\* The server's records, in server order.
Records(T) == [k \in 1..T |-> k]

Min(a, b) == IF a <= b THEN a ELSE b

\* The server honours limit and offset: records offset+1 .. offset+limit.
Page(T, limit, off) == SubSeq(Records(T), off + 1, Min(off + limit, T))

RECURSIVE Concat(_)
Concat(batches) ==
    IF batches = <<>> THEN <<>> ELSE Head(batches) \o Concat(Tail(batches))

\* line 81 with > for >=
BatchReadyLate(d, bs) == Len(d) > bs

\* line 81: the accumulated records are due
BatchReady(d, bs) == Len(d) >= bs

\* line 84 with > for >=
ExhaustedLate(off, total) == off > total

\* line 84: the request just made was at or past the end
Exhausted(off, total) == off >= total

\* line 93 skipping a record
NextOffsetGap(off, limit) == off + limit + 1

\* line 93: the next request's offset
NextOffset(off, limit) == off + limit

\* line 83, 87: the accumulator after a yield
AfterYield(d) == <<>>

HookInit ==
    /\ paginated \in BOOLEAN
    /\ total_entries \in 0..MaxTotal
    /\ page_size \in 1..MaxPage
    /\ batch_size \in 1..MaxBatch
    /\ ssh_conn_id \in BOOLEAN
    /\ pc = "created"
    /\ offset = 0
    /\ data = <<>>
    /\ i = 0
    /\ requests = <<>>
    /\ yielded = <<>>
    /\ tunnel = "none"
    /\ stop_calls = 0
    /\ late_requests = 0

hookArgs == <<paginated, total_entries, page_size, batch_size, ssh_conn_id>>

\* lines 95-97: the code after the loop
Finish ==
    /\ pc' = "done"
    /\ IF ssh_conn_id
       THEN tunnel' = "stopped" /\ stop_calls' = stop_calls + 1
       ELSE UNCHANGED <<tunnel, stop_calls>>

\* lines 84-93 once the accumulator is d: leave the loop or go round again
EndOfIteration(d) ==
    IF Exhausted(offset, total_entries)
    THEN IF d # <<>>
         THEN /\ pc' = "yield86"
              /\ yielded' = Append(yielded, d)
              /\ data' = d
              /\ UNCHANGED <<offset, tunnel, stop_calls>>
         ELSE /\ Finish
              /\ data' = d
              /\ UNCHANGED <<offset, yielded>>
    ELSE /\ pc' = "loop"
         /\ offset' = NextOffset(offset, page_size)
         /\ data' = d
         /\ UNCHANGED <<yielded, tunnel, stop_calls>>

\* lines 53-65: the first next() enters the body
Start ==
    /\ pc = "created"
    /\ UNCHANGED notHook
    /\ pc' = "loop"
    /\ tunnel' = IF ssh_conn_id THEN "started" ELSE tunnel
    /\ offset' = 0
    /\ data' = <<>>
    /\ i' = 0
    /\ UNCHANGED <<hookArgs, requests, yielded, stop_calls, late_requests>>

\* lines 66-93: one iteration, up to its first yield or its end
Request(status) ==
    /\ pc = "loop"
    /\ UNCHANGED notHook
    /\ i' = i + 1
    /\ requests' = Append(requests, <<page_size, offset>>)
    /\ late_requests' = late_requests + (IF tunnel = "stopped" THEN 1 ELSE 0)
    /\ IF status # OK
       THEN \* line 70: the assertion fails and the generator ends
            /\ pc' = "raised"
            /\ UNCHANGED <<offset, data, yielded, tunnel, stop_calls>>
       ELSE IF paginated
            THEN LET d == data \o Page(total_entries, page_size, offset) IN
                 IF BatchReady(d, batch_size)
                 THEN /\ pc' = "yield82"
                      /\ yielded' = Append(yielded, d)
                      /\ data' = d
                      /\ UNCHANGED <<offset, tunnel, stop_calls>>
                 ELSE EndOfIteration(d)
            ELSE /\ pc' = "yield91"
                 /\ yielded' = Append(yielded, <<Singleton>>)
                 /\ UNCHANGED <<offset, data, tunnel, stop_calls>>
    /\ UNCHANGED hookArgs

\* lines 83-93: the consumer asks for more after the batch of line 82
Resume82 ==
    /\ pc = "yield82"
    /\ UNCHANGED notHook
    /\ EndOfIteration(AfterYield(data))
    /\ UNCHANGED <<hookArgs, i, requests, late_requests>>

\* lines 87-88, 95-97: the consumer asks for more after the batch of line 86
Resume86 ==
    /\ pc = "yield86"
    /\ UNCHANGED notHook
    /\ data' = AfterYield(data)
    /\ Finish
    /\ UNCHANGED <<hookArgs, offset, i, requests, yielded, late_requests>>

\* lines 92, 95-97: the consumer asks for more after the object of line 91
Resume91 ==
    /\ pc = "yield91"
    /\ UNCHANGED notHook
    /\ Finish
    /\ UNCHANGED <<hookArgs, offset, data, i, requests, yielded, late_requests>>

\* The consumer stops iterating: the generator is closed where it is
\* suspended (GeneratorExit is raised at the yield; no handler, no finally).
Close ==
    /\ pc \in {"created", "yield82", "yield86", "yield91"}
    /\ UNCHANGED notHook
    /\ pc' = "closed"
    /\ UNCHANGED <<hookArgs, offset, data, i, requests, yielded, tunnel,
                   stop_calls, late_requests>>

HookNext ==
    \/ Start
    \/ \E status \in StatusCodes : Request(status)
    \/ Resume82
    \/ Resume86
    \/ Resume91
    \/ Close

\* ======================================================================
\* Part 2: Python numbers as dag_factory_incremental.py uses them
\* ======================================================================
\* Python's int is unbounded, and a timedelta or a datetime counts
\* microseconds exactly.  A natural number is kept as its digits in base
\* 2^15, least significant first, without leading zeros (0 is <<>>); an
\* integer is a sign and a magnitude.

Base == 2^15

\* number of binary digits of a digit
RECURSIVE Width(_)
Width(n) == IF n = 0 THEN 0 ELSE 1 + Width(n \div 2)

LimbBits == Width(Base - 1)

\* drop leading (most significant) zeros
RECURSIVE Norm(_)
Norm(a) ==
    IF a = <<>> THEN <<>>
    ELSE IF a[Len(a)] = 0 THEN Norm(SubSeq(a, 1, Len(a) - 1))
    ELSE a

RECURSIVE FromNat(_)
FromNat(n) == IF n = 0 THEN <<>> ELSE <<n % Base>> \o FromNat(n \div Base)

RECURSIVE ToNat(_)
ToNat(a) == IF a = <<>> THEN 0 ELSE a[1] + Base * ToNat(Tail(a))

Rest(a) == IF a = <<>> THEN a ELSE Tail(a)

Low(a) == IF a = <<>> THEN 0 ELSE a[1]

RECURSIVE AddC(_, _, _)
AddC(a, b, c) ==
    IF a = <<>> /\ b = <<>> THEN (IF c = 0 THEN <<>> ELSE <<c>>)
    ELSE LET t == Low(a) + Low(b) + c
         IN <<t % Base>> \o AddC(Rest(a), Rest(b), t \div Base)

Add(a, b) == AddC(a, b, 0)

\* a - b for a >= b
RECURSIVE SubB(_, _, _)
SubB(a, b, c) ==
    IF a = <<>> THEN <<>>
    ELSE LET t == a[1] - Low(b) - c
         IN <<t % Base>> \o SubB(Tail(a), Rest(b), IF t < 0 THEN 1 ELSE 0)

Sub(a, b) == Norm(SubB(a, b, 0))

\* -1, 0, 1 as a < b, a = b, a > b
RECURSIVE CmpTop(_, _, _)
CmpTop(a, b, k) ==
    IF k = 0 THEN 0
    ELSE IF a[k] < b[k] THEN -1
    ELSE IF a[k] > b[k] THEN 1
    ELSE CmpTop(a, b, k - 1)

Cmp(a, b) ==
    IF Len(a) < Len(b) THEN -1
    ELSE IF Len(a) > Len(b) THEN 1
    ELSE CmpTop(a, b, Len(a))

\* a * d + c for a digit d and a carry c
RECURSIVE MulDigit(_, _, _)
MulDigit(a, d, c) ==
    IF a = <<>> THEN (IF c = 0 THEN <<>> ELSE <<c>>)
    ELSE LET t == a[1] * d + c
         IN <<t % Base>> \o MulDigit(Tail(a), d, t \div Base)

RECURSIVE Mul(_, _)
Mul(a, b) ==
    IF a = <<>> \/ b = <<>> THEN <<>>
    ELSE Add(Norm(MulDigit(b, a[1], 0)), Norm(<<0>> \o Mul(Tail(a), b)))

\* the number of binary digits of a
BitLen(a) ==
    IF a = <<>> THEN 0 ELSE LimbBits * (Len(a) - 1) + Width(a[Len(a)])

Zeros(n) == [k \in 1..n |-> 0]

\* a * 2^n
ShiftL(a, n) ==
    IF a = <<>> THEN <<>>
    ELSE Zeros(n \div LimbBits) \o Norm(MulDigit(a, 2^(n % LimbBits), 0))

\* a with its digits from the most significant down divided by a digit d,
\* the remainder so far being c
RECURSIVE DivDigit(_, _, _)
DivDigit(a, d, c) ==
    IF a = <<>> THEN <<>>
    ELSE LET t == c * Base + a[Len(a)]
         IN DivDigit(SubSeq(a, 1, Len(a) - 1), d, t % d) \o <<t \div d>>

\* floor(a / 2^n)
ShiftR(a, n) ==
    IF n \div LimbBits >= Len(a) THEN <<>>
    ELSE Norm(DivDigit(SubSeq(a, n \div LimbBits + 1, Len(a)),
                       2^(n % LimbBits), 0))

\* the largest digit d in lo..hi with d * b <= r (lo qualifies)
RECURSIVE QuotDigit(_, _, _, _)
QuotDigit(r, b, lo, hi) ==
    IF lo = hi THEN lo
    ELSE LET mid == (lo + hi + 1) \div 2
         IN IF Cmp(Norm(MulDigit(b, mid, 0)), r) <= 0
            THEN QuotDigit(r, b, mid, hi)
            ELSE QuotDigit(r, b, lo, mid - 1)

\* [q, r] with a = q*b + r and 0 <= r < b, for b > 0
RECURSIVE DivMod(_, _)
DivMod(a, b) ==
    IF a = <<>> THEN [q |-> <<>>, r |-> <<>>]
    ELSE LET h == DivMod(Tail(a), b)
             r2 == Norm(<<a[1]>> \o h.r)
             d == QuotDigit(r2, b, 0, Base - 1)
         IN [q |-> Norm(<<d>> \o h.q),
             r |-> Sub(r2, Norm(MulDigit(b, d, 0)))]

\* ---- signed integers
MkInt(neg, mag) == [neg |-> (neg /\ mag # <<>>), mag |-> mag]

IAdd(x, y) ==
    IF x.neg = y.neg THEN MkInt(x.neg, Add(x.mag, y.mag))
    ELSE IF Cmp(x.mag, y.mag) >= 0 THEN MkInt(x.neg, Sub(x.mag, y.mag))
    ELSE MkInt(y.neg, Sub(y.mag, x.mag))

INeg(x) == MkInt(~x.neg, x.mag)

ISub(x, y) == IAdd(x, INeg(y))

IMul(x, y) == MkInt(x.neg # y.neg, Mul(x.mag, y.mag))

ICmp(x, y) ==
    IF x.neg /\ ~y.neg THEN -1
    ELSE IF ~x.neg /\ y.neg THEN 1
    ELSE IF x.neg THEN Cmp(y.mag, x.mag)
    ELSE Cmp(x.mag, y.mag)

ILess(x, y) == ICmp(x, y) < 0

\* ---- float: Python's float is an IEEE-754 double, sign * m * 2^e with at
\* most MantBits significant bits in m.
MantBits == 53

FloatEq(f, g) ==
    LET e == IF f.e < g.e THEN f.e ELSE g.e
        fm == ShiftL(f.m, f.e - e)
        gm == ShiftL(g.m, g.e - e)
    IN fm = gm /\ (fm = <<>> \/ f.neg = g.neg)

\* x rounded to the nearest multiple of 2^n, ties to even, given whether
\* nonzero digits were already dropped below x (sticky); the result is in
\* units of 2^n
RoundShift(x, n, sticky) ==
    IF n = 0 THEN x
    ELSE LET keep == ShiftR(x, n)
             low == Sub(x, ShiftL(keep, n))
             half == ShiftL(<<1>>, n - 1)
             c == Cmp(low, half)
             odd == keep # <<>> /\ keep[1] % 2 = 1
             up == c > 0 \/ (c = 0 /\ (sticky \/ odd))
         IN IF up THEN Add(keep, <<1>>) ELSE keep

\* int / int: the correctly rounded quotient (true division)
TrueDiv(a, b) ==
    IF a.mag = <<>> THEN [neg |-> FALSE, m |-> <<>>, e |-> 0]
    ELSE LET want == MantBits + 2 - (BitLen(a.mag) - BitLen(b.mag))
             s == IF want > 0 THEN want ELSE 0
             d == DivMod(ShiftL(a.mag, s), b.mag)
             extra == BitLen(d.q) - MantBits
             m == RoundShift(d.q, extra, d.r # <<>>)
         IN [neg |-> a.neg # b.neg, m |-> m, e |-> extra - s]

\* int(float): truncation toward zero
Trunc(f) ==
    IF f.e >= 0 THEN MkInt(f.neg, ShiftL(f.m, f.e))
    ELSE MkInt(f.neg, ShiftR(f.m, 0 - f.e))

\* round(float, 0): the nearest integer, ties to even, as a float
Round0(f) ==
    IF f.e >= 0 THEN f
    ELSE [neg |-> f.neg, m |-> RoundShift(f.m, 0 - f.e, FALSE), e |-> 0]

\* ======================================================================
\* Part 3: dag_factory_incremental_loading (dag_factory_incremental.py)
\* ======================================================================
\* A timedelta is its number of microseconds; a datetime is the number of
\* microseconds since datetime.min (0001-01-01 00:00).  None is <<>> and a
\* value v that may be None is <<v>>.

None == <<>>
Some(v) == <<v>>
Val(o) == o[1]

I(n) == MkInt(FALSE, FromNat(n))

\* timedelta(days, seconds, microseconds), each >= 0
TD(days, seconds, micros) ==
    IAdd(IMul(IAdd(IMul(I(days), I(86400)), I(seconds)), I(1000000)), I(micros))

Hours(h) == TD(0, 3600 * h, 0)
Days(d) == TD(d, 0, 0)
Micro == TD(0, 0, 1)

NoArgs == [etl_operator |-> "", future |-> "", backfill |-> "",
           schedule_interval_future |-> Hours(0),
           schedule_interval_backfill |-> Hours(0),
           tables |-> <<>>, start_date |-> Hours(0), switch_date |-> None,
           dwh_engine |-> ""]

FactoryInit ==
    /\ f_pc = "idle"
    /\ f_args = NoArgs
    /\ f_error = ""
    /\ f_now = None
    /\ f_switch_date = None
    /\ f_dags = None
    /\ ets = None

\* line 71: the smallest backfill interval
MinBackfill == Days(1)

\* line 71
BelowMinimum(backfill) == ILess(backfill, MinBackfill)

\* line 73
BackfillTooSmall(backfill, future) == ILess(backfill, future)

\* line 80: don't switch immediately
SwitchLag == Hours(12)

\* lines 80-83: the switch date when none is given
ComputedSwitchDate(now, start_date, backfill) ==
    LET current_time == ISub(now, SwitchLag)
        n == Trunc(TrueDiv(ISub(current_time, start_date), backfill))
    IN IAdd(IMul(n, backfill), start_date)

\* lines 85-89: the backfill runs do not fill the time to the switch date
NotWholeCount(switch_date, start_date, backfill) ==
    LET backfill_timedelta == ISub(switch_date, start_date)
        backfill_tasks_count == TrueDiv(backfill_timedelta, backfill)
    IN ~ FloatEq(backfill_tasks_count, Round0(backfill_tasks_count))

\* the task ids: the sensors of lines 209 and 220, the two tasks
\* etl_schema_tasks returns (lines 187, 197) and one load task a table
\* (line 235)
SensorId == "sense_previous_instance"
KickoffId == "kickoff"
FinalId == "final"
LoadId(table) == <<"extract_load", table.name>>

IncrementalId == "Incremental"
BackfillId == "Incremental_Backfill"
ResetId == "Incremental_Reset"

RECURSIVE Names(_)
Names(tables) ==
    IF tables = <<>> THEN {} ELSE {Head(tables)} \cup Names(Tail(tables))

\* lines 257-260: the tables the backfill DAG loads
Backfilled(tables) == {t \in Names(tables) : ~ t.skip_backfill}

\* lines 228, 255: the tasks right upstream of each task of the incremental
\* DAG
IncrementalUpstream(tables) ==
    [sensor |-> {},
     kickoff |-> {SensorId},
     load |-> [t \in Names(tables) |-> {KickoffId}],
     final |-> {LoadId(t) : t \in Names(tables)}]

\* lines 229, 257-263: the same of the backfill DAG
BackfillUpstream(tables) ==
    [sensor |-> {},
     kickoff |-> {SensorId},
     load |-> [t \in Backfilled(tables) |-> {KickoffId}],
     final |-> IF Backfilled(tables) = {} THEN {KickoffId}
               ELSE {LoadId(t) : t \in Backfilled(tables)}]

\* lines 94-120, 228-263
Dags(start_date, switch_date, backfill, future, tables) ==
    [Incremental |->
        [dag_id |-> IncrementalId,
         start_date |-> switch_date, end_date |-> None,
         schedule_interval |-> Some(future),
         upstream |-> IncrementalUpstream(tables)],
     Backfill |->
        [dag_id |-> BackfillId,
         start_date |-> start_date, end_date |-> Some(switch_date),
         schedule_interval |-> Some(backfill),
         upstream |-> BackfillUpstream(tables)],
     Reset |->
        [dag_id |-> ResetId,
         start_date |-> start_date, end_date |-> None,
         schedule_interval |-> None]]

\* lines 15-25: an ExtendedETS object
ExtendedETS(external_dag_id, external_task_id, execution_delta, backfill_dag_id, backfill_external_task_id, backfill_execution_delta) ==
    [allowed_states |-> {"success", "skipped"},
     external_dag_id |-> external_dag_id,
     external_task_id |-> external_task_id,
     execution_delta |-> execution_delta,
     execution_date_fn |-> None,
     backfill_dag_id |-> backfill_dag_id,
     backfill_external_task_id |-> backfill_external_task_id,
     backfill_execution_delta |-> backfill_execution_delta,
     backfill_execution_date_fn |-> None]

\* the sensors looking at the kickoff task in place of the final task
SensorsAtKickoff(backfill, future) ==
    [Incremental |->
        ExtendedETS(Some(IncrementalId), Some(KickoffId), Some(future),
                    Some(BackfillId), Some(KickoffId), Some(backfill)),
     Backfill |->
        ExtendedETS(Some(BackfillId), Some(KickoffId), Some(backfill),
                    None, None, None)]

\* lines 207-227: ets[0] of the incremental DAG, ets[1] of the backfill DAG
Sensors(backfill, future) ==
    [Incremental |->
        ExtendedETS(Some(IncrementalId), Some(FinalId), Some(future),
                    Some(BackfillId), Some(FinalId), Some(backfill)),
     Backfill |->
        ExtendedETS(Some(BackfillId), Some(FinalId), Some(backfill),
                    None, None, None)]

Raise(a, e) ==
    /\ f_pc' = "raised"
    /\ f_args' = a
    /\ f_error' = e
    /\ f_dags' = None
    /\ ets' = None

\* lines 63-77: the exception the argument checks raise, "" if none
ArgumentError(a) ==
    IF a.etl_operator = "no_attr" THEN "Invalid operator supplied!"
    ELSE IF a.etl_operator = "not_incremental"
        THEN "Operator does not support incremental loading!"
    ELSE IF a.future # "timedelta"
        THEN "Schedule intervals must be datetime.timedelta!"
    ELSE IF a.backfill # "timedelta"
        THEN "Schedule intervals must be datetime.timedelta!"
    ELSE IF BelowMinimum(a.schedule_interval_backfill)
        THEN "Backfill schedule interval cannot be below 1 day!"
    ELSE IF BackfillTooSmall(a.schedule_interval_backfill,
                             a.schedule_interval_future)
        THEN "Backfill schedule interval must be larger than regular schedule interval!"
    ELSE IF a.tables = <<>>
        THEN "Requires a \"tables\" dictionary in operator_config!"
    ELSE ""

\* lines 167-183: the exception building the drop task raises, "" if none
\* (the module never imports SnowflakeOperator)
EngineError(dwh_engine) ==
    IF dwh_engine = "postgres" THEN ""
    ELSE IF dwh_engine = "snowflake"
        THEN "NameError: name 'SnowflakeOperator' is not defined"
    ELSE "DWH not implemented for this task!"

WholeCountError ==
    "The schedule interval of the backfill must be an exact integer multiple of the time period between start date and switch date!"

\* lines 79-265 with the switch date sd in use
Build(a, sd) ==
    /\ f_switch_date' = Some(sd)
    /\ IF NotWholeCount(sd, a.start_date, a.schedule_interval_backfill)
       THEN Raise(a, WholeCountError)
       ELSE /\ f_dags' = Some(Dags(a.start_date, sd,
                                   a.schedule_interval_backfill,
                                   a.schedule_interval_future, a.tables))
            /\ ets' = Some(Sensors(a.schedule_interval_backfill,
                                   a.schedule_interval_future))
            /\ f_args' = a
            /\ f_error' = EngineError(a.dwh_engine)
            /\ f_pc' = IF EngineError(a.dwh_engine) = ""
                       THEN "returned" ELSE "raised"

\* dag_factory_incremental_loading(**a); now is what datetime.now() returns
\* if it is called
Call(a, now) ==
    /\ f_pc = "idle"
    /\ IF ArgumentError(a) # ""
       THEN /\ Raise(a, ArgumentError(a))
            /\ f_now' = None
            /\ f_switch_date' = None
       ELSE IF a.switch_date = None
       THEN /\ f_now' = Some(now)
            /\ Build(a, ComputedSwitchDate(now, a.start_date,
                                           a.schedule_interval_backfill))
       ELSE /\ f_now' = None
            /\ Build(a, Val(a.switch_date))

\* ---- the calls explored

\* whole backfill intervals between the start date and a date on offer: a
\* few, and as many days as lie between 0001-01-01 and 1999-09-04
Multiples == (0..MaxMultiple) \cup {730000}

\* what a date on offer adds to a whole number of intervals
Offsets == {INeg(Hours(18)), INeg(Micro), Hours(0), Micro, Hours(6)}

\* 0001-01-01 and 2026-01-01
StartDates == {Days(0), Days(739616)}

DatesNear(start_date, backfill) ==
    {d \in {IAdd(IAdd(start_date, IMul(I(j), backfill)), o) :
                j \in Multiples, o \in Offsets} : ~ d.neg}

FutureIntervals ==
    {[type |-> "timedelta", td |-> td] : td \in {Hours(1), Days(1), Days(2)}}
        \cup {[type |-> "str", td |-> Hours(0)]}

BackfillIntervals ==
    {[type |-> "timedelta", td |-> td] :
        td \in {Hours(12), Days(1), IAdd(Days(1), Micro), Days(2)}}
        \cup {[type |-> "str", td |-> Hours(0)]}

Table(name, skip) == [name |-> name, skip_backfill |-> skip]

Args(op, fut, back, tables, start_date, switch_date, engine) ==
    [etl_operator |-> op, future |-> fut.type, backfill |-> back.type,
     schedule_interval_future |-> fut.td,
     schedule_interval_backfill |-> back.td,
     tables |-> tables, start_date |-> start_date,
     switch_date |-> switch_date, dwh_engine |-> engine]

\* the switch dates on offer in a call with these intervals
SwitchDates(start_date, back) ==
    {None} \cup
    {Some(d) : d \in DatesNear(start_date, IF back.type = "timedelta"
                                           THEN back.td ELSE Days(1))}

\* the values datetime.now() may return in a call: none is read unless the
\* switch date is to be computed
Clock(a) ==
    IF ArgumentError(a) = "" /\ a.switch_date = None
    THEN {IAdd(d, SwitchLag) :
            d \in DatesNear(a.start_date, a.schedule_interval_backfill)}
    ELSE {Hours(0)}

FactoryCall ==
    /\ f_pc = "idle"
    /\ \E op \in {"no_attr", "not_incremental", "incremental"},
          fut \in FutureIntervals,
          back \in BackfillIntervals,
          tables \in {<<>>, <<Table("a", FALSE)>>},
          start_date \in StartDates,
          engine \in {"postgres", "snowflake", "other"} :
        \E switch_date \in SwitchDates(start_date, back) :
            LET a == Args(op, fut, back, tables, start_date, switch_date,
                          engine)
            IN \E now \in Clock(a) : Call(a, now)
    /\ UNCHANGED notFactory

FactoryNext == FactoryCall

\* ======================================================================
\* Part 4: ExtendedETS.execute and the runs of the DAGs
\* ======================================================================

\* Python's truth value of a value that may be None: an empty string and a
\* timedelta of zero are false as well, a function is true
TrueId(o) == o # None /\ Val(o) # ""

TrueDelta(o) == o # None /\ Val(o) # Hours(0)

TrueFn(o) == o # None

\* lines 33-36: the object after the first instance looked for the backfill
LookAtBackfill(self) ==
    [self EXCEPT
        !.execution_delta =
            IF TrueDelta(self.backfill_execution_delta)
            THEN self.backfill_execution_delta ELSE @,
        !.execution_date_fn =
            IF TrueFn(self.backfill_execution_date_fn)
            THEN self.backfill_execution_date_fn ELSE @,
        !.external_task_id =
            IF TrueId(self.backfill_external_task_id)
            THEN self.backfill_external_task_id ELSE @,
        !.external_dag_id = self.backfill_dag_id]

\* What ExternalTaskSensor.execute(context) waits for: the task
\* external_task_id of the run of external_dag_id at the execution date less
\* execution_delta, in one of allowed_states
Sensed(self, execution_date) ==
    [auto |-> FALSE,
     dag_id |-> Val(self.external_dag_id),
     task_id |-> Val(self.external_task_id),
     date |-> IF self.execution_delta = None THEN execution_date
              ELSE ISub(execution_date, Val(self.execution_delta)),
     allowed_states |-> self.allowed_states]

\* lines 39-42: the sensor succeeds without waiting
Automatic ==
    [auto |-> TRUE, dag_id |-> "", task_id |-> "", date |-> Hours(0),
     allowed_states |-> {}]

\* lines 28-44: execute(self, context): the object it leaves and what it
\* waits for
Execute(self, dag_start_date, execution_date) ==
    IF dag_start_date = execution_date
    THEN IF TrueId(self.backfill_dag_id)
         THEN [self |-> LookAtBackfill(self),
               waits |-> Sensed(LookAtBackfill(self), execution_date)]
         ELSE [self |-> self, waits |-> Automatic]
    ELSE [self |-> self, waits |-> Sensed(self, execution_date)]

runVars == <<sensed, runs>>

DagIds == {IncrementalId, BackfillId}

DagById(id) ==
    IF id = IncrementalId THEN Val(f_dags).Incremental
    ELSE Val(f_dags).Backfill

SensorOf(id) ==
    IF id = IncrementalId THEN Val(ets).Incremental ELSE Val(ets).Backfill

\* the execution date of run n (0, 1, ...) of a DAG
ExecDate(dag, n) ==
    IAdd(dag.start_date, IMul(I(n), Val(dag.schedule_interval)))

RunInit ==
    /\ sensed = <<>>
    /\ runs = [id \in DagIds |-> <<>>]

\* ---- direct calls of execute on the sensor objects of the DAGs

DirectExecute(id, n) ==
    /\ f_pc = "returned"
    /\ Len(sensed) < MaxCalls
    /\ LET dag == DagById(id)
           r == Execute(SensorOf(id), dag.start_date, ExecDate(dag, n))
       IN /\ ets' = Some(IF id = IncrementalId
                         THEN [Val(ets) EXCEPT !.Incremental = r.self]
                         ELSE [Val(ets) EXCEPT !.Backfill = r.self])
          /\ sensed' = Append(sensed,
                              [sensor |-> id, n |-> n, waits |-> r.waits])
    /\ UNCHANGED <<hookVars, f_pc, f_args, f_error, f_now, f_switch_date,
                   f_dags, runs>>

\* ---- the scheduler: catchup=True, max_active_runs=1 (lines 94-111)

TI(state, started) == [state |-> state, started |-> started]

Waiting == TI("none", FALSE)

NewRun(dag) ==
    [sensor |-> Waiting, kickoff |-> Waiting,
     load |-> [t \in DOMAIN dag.upstream.load |-> Waiting],
     final |-> Waiting]

\* the task instance of task_id in a run; absent for a task the run lacks
TaskInstance(run, task_id) ==
    IF task_id = SensorId THEN run.sensor
    ELSE IF task_id = KickoffId THEN run.kickoff
    ELSE IF task_id = FinalId THEN run.final
    ELSE TI("absent", FALSE)

RunFinished(run) ==
    /\ run.sensor.state # "none"
    /\ run.kickoff.state # "none"
    /\ \A t \in DOMAIN run.load : run.load[t].state # "none"
    /\ run.final.state # "none"

\* the state of task task_id of the run of DAG id at a date
StateAt(id, task_id, date) ==
    LET dag == DagById(id)
        since == ISub(date, dag.start_date)
        d == DivMod(since.mag, Val(dag.schedule_interval).mag)
    IN IF since.neg \/ d.r # <<>> \/ Len(d.q) > 1 THEN "absent"
       ELSE IF ToNat(d.q) >= Len(runs[id]) THEN "absent"
       ELSE TaskInstance(runs[id][ToNat(d.q) + 1], task_id).state

\* ExternalTaskSensor.poke
Poke(waits) ==
    \/ waits.auto
    \/ StateAt(waits.dag_id, waits.task_id, waits.date) \in waits.allowed_states

\* the scheduler creates the next run of a DAG
CreateRun(id) ==
    /\ f_pc = "returned"
    /\ LET dag == DagById(id)
           n == Len(runs[id])
       IN /\ n < MaxRuns
          /\ n > 0 => RunFinished(runs[id][n])
          /\ dag.end_date # None =>
                ~ ILess(Val(dag.end_date), ExecDate(dag, n))
          /\ runs' = [runs EXCEPT ![id] = Append(@, NewRun(dag))]
    /\ UNCHANGED <<hookVars, factoryVars, sensed>>

Current(id) == runs[id][Len(runs[id])]

SetCurrent(id, run) ==
    runs' = [runs EXCEPT ![id] = [@ EXCEPT ![Len(@)] = run]]

\* the sensor of the current run: Airflow executes a copy of the task
\* (copy.copy(task)), so what execute assigns to self is gone after the run
RunSensor(id, timeout) ==
    /\ f_pc = "returned"
    /\ runs[id] # <<>>
    /\ Current(id).sensor.state = "none"
    /\ LET dag == DagById(id)
           r == Execute(SensorOf(id), dag.start_date,
                        ExecDate(dag, Len(runs[id]) - 1))
       IN IF timeout
          THEN SetCurrent(id, [Current(id) EXCEPT
                                  !.sensor = TI("failed", TRUE)])
          ELSE /\ Poke(r.waits)
               /\ SetCurrent(id, [Current(id) EXCEPT
                                     !.sensor = TI("success", TRUE)])
    /\ UNCHANGED <<hookVars, factoryVars, sensed>>

Outcomes == {"success", "failed", "skipped"}

\* the task instance of a task with the default trigger rule, given the
\* states of the tasks upstream and the outcome if it runs
After(upstream, outcome) ==
    IF \E u \in upstream : u \in {"failed", "upstream_failed"}
    THEN TI("upstream_failed", FALSE)
    ELSE IF "skipped" \in upstream THEN TI("skipped", FALSE)
    ELSE TI(outcome, TRUE)

UpstreamStates(run, ids) ==
    {TaskInstance(run, u).state : u \in ids}

RunKickoff(id, outcome) ==
    /\ f_pc = "returned"
    /\ runs[id] # <<>>
    /\ LET run == Current(id)
           up == UpstreamStates(run, DagById(id).upstream.kickoff)
       IN /\ run.kickoff.state = "none"
          /\ "none" \notin up
          /\ SetCurrent(id, [run EXCEPT !.kickoff = After(up, outcome)])
    /\ UNCHANGED <<hookVars, factoryVars, sensed>>

RunLoad(id, outcome) ==
    /\ f_pc = "returned"
    /\ runs[id] # <<>>
    /\ \E t \in DOMAIN Current(id).load :
        LET run == Current(id)
            up == UpstreamStates(run, DagById(id).upstream.load[t])
        IN /\ run.load[t].state = "none"
           /\ "none" \notin up
           /\ SetCurrent(id, [run EXCEPT !.load[t] = After(up, outcome)])
    /\ UNCHANGED <<hookVars, factoryVars, sensed>>

\* the tasks upstream of final are load tasks, or kickoff if there is none
FinalUpstreamStates(id, run) ==
    IF DOMAIN run.load = {}
    THEN UpstreamStates(run, DagById(id).upstream.final)
    ELSE {run.load[t].state : t \in DOMAIN run.load}

RunFinal(id, outcome) ==
    /\ f_pc = "returned"
    /\ runs[id] # <<>>
    /\ LET run == Current(id)
           up == FinalUpstreamStates(id, run)
       IN /\ run.final.state = "none"
          /\ "none" \notin up
          /\ SetCurrent(id, [run EXCEPT !.final = After(up, outcome)])
    /\ UNCHANGED <<hookVars, factoryVars, sensed>>

\* lines 123-162: the reset DAG deletes the runs and task instances of both
\* DAGs
Reset ==
    /\ f_pc = "returned"
    /\ \E id \in DagIds : runs[id] # <<>>
    /\ runs' = [id \in DagIds |-> <<>>]
    /\ UNCHANGED <<hookVars, factoryVars, sensed>>

\* the calls whose DAGs are run
DagArgs ==
    {Args("incremental", [type |-> "timedelta", td |-> c.future],
          [type |-> "timedelta", td |-> Days(2)], c.tables,
          Days(739616), Some(IAdd(Days(739616), IMul(I(c.n), Days(2)))),
          "postgres") :
        c \in {[future |-> Days(1), n |-> 1,
                tables |-> <<Table("a", FALSE), Table("b", TRUE)>>],
               [future |-> Days(2), n |-> 1,
                tables |-> <<Table("a", TRUE)>>],
               [future |-> Days(2), n |-> 0,
                tables |-> <<Table("a", FALSE)>>]}}

DagFactoryCall ==
    /\ f_pc = "idle"
    /\ \E a \in DagArgs : Call(a, Hours(0))
    /\ UNCHANGED <<hookVars, runVars>>

\* ======================================================================
\* Claims
\* ======================================================================

Ended == pc \in {"done", "raised", "closed"}

\* C1: a paginated endpoint consumed to exhaustion delivers the server's
\* records exactly once and in server order: the concatenation of the yielded
\* batches is the record list, and before the end it is a prefix of it.
C1_AllRecordsOnce ==
    paginated =>
        /\ LET got == Concat(yielded) IN
           /\ Len(got) <= total_entries
           /\ got = SubSeq(Records(total_entries), 1, Len(got))
        /\ pc = "done" => Concat(yielded) = Records(total_entries)

C1_Witness ==
    /\ paginated
    /\ pc = "done"
    /\ total_entries >= 4
    /\ page_size >= 2
    /\ Len(yielded) >= 2

\* C2: on a paginated endpoint a batch is yielded right after the page that
\* brings the accumulator to batch_size or more and the accumulator is then
\* emptied; every batch but the last holds between batch_size and
\* batch_size + page_size - 1 records, no batch is empty, and no batch is
\* yielded when total_entries is 0.
C2_BatchSizes ==
    paginated =>
        /\ \A k \in 1..Len(yielded) : Len(yielded[k]) >= 1
        /\ \A k \in 1..Len(yielded) :
              (k < Len(yielded) \/ pc = "yield82") =>
                  /\ Len(yielded[k]) >= batch_size
                  /\ Len(yielded[k]) <= batch_size + page_size - 1
        /\ pc = "loop" => Len(data) < batch_size
        /\ pc \in {"yield82", "yield86"} => yielded[Len(yielded)] = data
        /\ pc = "done" => data = <<>>
        /\ total_entries = 0 => yielded = <<>>

C2_Witness ==
    /\ paginated
    /\ pc = "done"
    /\ page_size >= 2
    /\ Len(yielded) = 2
    /\ Len(yielded[1]) = batch_size + page_size - 1
    /\ Len(yielded[2]) < batch_size

\* C7: on a paginated endpoint the requests carry limit page_size at offsets
\* 0, page_size, 2*page_size, ...; every request but the last is below
\* total_entries, and the generator ends after the first request at or past
\* total_entries, issuing nothing further.
C7_RequestOffsets ==
    paginated =>
        /\ i = Len(requests)
        /\ \A k \in 1..Len(requests) :
              /\ requests[k] = <<page_size, (k - 1) * page_size>>
              /\ k < Len(requests) => requests[k][2] < total_entries
        /\ pc = "loop" =>
              \A k \in 1..Len(requests) : requests[k][2] < total_entries
        /\ pc \in {"yield86", "done"} =>
              /\ requests # <<>>
              /\ requests[Len(requests)][2] >= total_entries
        /\ pc = "done" => ~ ENABLED HookNext

C7_Witness ==
    /\ paginated
    /\ pc = "done"
    /\ total_entries = 2 * page_size
    /\ Len(requests) = 3

\* C8: with an ssh_conn_id the tunnel is started before the first request and
\* stopped exactly once on every way the generator ends (exhaustion, a
\* response other than 200, the consumer stopping early), and no request is
\* issued after the stop.
C8_TunnelStoppedOnEveryEnd ==
    ssh_conn_id =>
        /\ requests # <<>> => tunnel # "none"
        /\ (Ended /\ tunnel # "none") => (tunnel = "stopped" /\ stop_calls = 1)
        /\ late_requests = 0

\* a is a whole multiple of b, in exact arithmetic
ExactMultiple(a, b) == DivMod(a.mag, b.mag).r = <<>>

PassedArgumentChecks == f_pc # "idle" /\ ArgumentError(f_args) = ""

\* C3: with a switch_date supplied and the earlier checks passed, the factory
\* raises on the interval check exactly when switch_date - start_date is not
\* a whole multiple of schedule_interval_backfill, and otherwise builds the
\* three DAGs.
C3_RaisesIffNotMultiple ==
    (PassedArgumentChecks /\ f_args.switch_date # None) =>
        LET whole == ExactMultiple(
                        ISub(Val(f_args.switch_date), f_args.start_date),
                        f_args.schedule_interval_backfill)
        IN /\ (f_error = WholeCountError) <=> ~ whole
           /\ whole => f_dags # None

\* C4: without a switch_date, the computed one is start_date + k * backfill
\* for the largest whole k that keeps it at or before now - 12 hours: it is
\* a whole multiple away from start_date, not later than now - 12 hours and
\* less than one backfill interval before it.
C4_SwitchDateIsFloor ==
    f_now # None =>
        LET current_time == ISub(Val(f_now), SwitchLag)
            sd == Val(f_switch_date)
            b == f_args.schedule_interval_backfill
        IN /\ ExactMultiple(ISub(sd, f_args.start_date), b)
           /\ ~ ILess(current_time, sd)
           /\ ILess(current_time, IAdd(sd, b))

\* C6: whenever both intervals are timedeltas and the backfill interval is
\* not larger than the future interval, the factory raises and returns no
\* DAGs.
C6_BackfillMustBeLarger ==
    (/\ f_pc # "idle"
     /\ f_args.future = "timedelta"
     /\ f_args.backfill = "timedelta"
     /\ ~ ILess(f_args.schedule_interval_future,
                f_args.schedule_interval_backfill))
        => f_pc = "raised"

\* the sensor objects as the factory configured them
Configured ==
    Sensors(f_args.schedule_interval_backfill, f_args.schedule_interval_future)

ConfiguredSensor(id) ==
    IF id = IncrementalId THEN Configured.Incremental ELSE Configured.Backfill

\* a run has begun its work: one of its tasks after the sensor has started
Begun(run) ==
    \/ run.kickoff.started
    \/ \E t \in DOMAIN run.load : run.load[t].started
    \/ run.final.started

Touched(run) ==
    \/ run.kickoff.state # "none"
    \/ \E t \in DOMAIN run.load : run.load[t].state # "none"
    \/ run.final.state # "none"

Passed == {"success", "skipped"}

C9_ExecuteKeepsConfiguration ==
    f_pc = "returned" =>
        /\ Val(ets) = Configured
        /\ \A k \in 1..Len(sensed) :
              sensed[k].n # 0 =>
                  sensed[k].waits =
                      Sensed(ConfiguredSensor(sensed[k].sensor),
                             ExecDate(DagById(sensed[k].sensor), sensed[k].n))

\* ======================================================================
\* Specifications
\* ======================================================================

vars == <<hookVars, factoryVars, runVars>>

HookIdle ==
    /\ paginated = FALSE /\ total_entries = 0 /\ page_size = 1
    /\ batch_size = 1 /\ ssh_conn_id = FALSE /\ pc = "closed" /\ offset = 0
    /\ data = <<>> /\ i = 0 /\ requests = <<>> /\ yielded = <<>>
    /\ tunnel = "none" /\ stop_calls = 0 /\ late_requests = 0

HookSpecInit == HookInit /\ FactoryInit /\ RunInit

HookSpec == HookSpecInit /\ [][HookNext]_vars

FactorySpecInit == HookIdle /\ FactoryInit /\ RunInit

FactorySpec == FactorySpecInit /\ [][FactoryNext]_vars

SensorNext ==
    \/ DagFactoryCall
    \/ \E id \in DagIds, n \in 0..MaxRuns : DirectExecute(id, n)

SensorSpec == FactorySpecInit /\ [][SensorNext]_vars

DagNext ==
    \/ DagFactoryCall
    \/ \E id \in DagIds : CreateRun(id)
    \/ \E id \in DagIds, timeout \in BOOLEAN : RunSensor(id, timeout)
    \/ \E id \in DagIds, outcome \in Outcomes : RunKickoff(id, outcome)
    \/ \E id \in DagIds, outcome \in Outcomes : RunLoad(id, outcome)
    \/ \E id \in DagIds, outcome \in Outcomes : RunFinal(id, outcome)
    \/ Reset

DagSpec == FactorySpecInit /\ [][DagNext]_vars

====
